---------------------------- MODULE Spec2Model ----------------------------
(***************************************************************************)
(* Model of utft_to_utf8() from pgutft.c: a PostgreSQL C function that     *)
(* decodes a bytea holding UTF-T text into a text value holding UTF-8.     *)
(*                                                                         *)
(* The state is the state of the backend calling the function: the         *)
(* arguments of the calls it makes, the values returned so far, and the    *)
(* local variables of the call in progress.  One action models one         *)
(* iteration of the while loop for each of its three branches, and the     *)
(* function's entry and its return are two more actions.                   *)
(***************************************************************************)
EXTENDS Integers, Sequences, FiniteSets, TLC

(***************************************************************************)
(* Program constants.                                                      *)
(***************************************************************************)
UTFT_BUFSIZE == 512

\* PostgreSQL's varlena header: 4 bytes holding the total size of the datum.
VARHDRSZ == 4

\* The lead byte of a 4-byte UTF-T unit.
SENTINEL == 155

\* The offset subtracted from the 21-bit payload (0x0F0000).
UTFT_OFFSET == 983040

\* unsigned long on the documented build (gcc, GNU-Linux, LP64) has 64 bits,
\* kept here as ULONG_LIMBS limbs of 16 bits, least significant first.
ULONG_LIMBS == 4

LIMB == 65536

(***************************************************************************)
(* Bounds of the model.                                                    *)
(***************************************************************************)
\* A short argument is the concatenation of at most MaxUnits sample units.
MaxUnits == 2

\* A long argument repeats one unit LongUnits times: 128 units of 4 output
\* bytes fill the 512 bytes of the initial buffer.
LongUnits == 128

(***************************************************************************)
(* Bit arithmetic on naturals.                                             *)
(***************************************************************************)
RECURSIVE BitAnd(_, _)
BitAnd(a, b) ==
    IF a = 0 \/ b = 0 THEN 0
    ELSE (IF a % 2 = 1 /\ b % 2 = 1 THEN 1 ELSE 0) + 2 * BitAnd(a \div 2, b \div 2)

BitOr(a, b) == a + b - BitAnd(a, b)

RECURSIVE Pow2(_)
Pow2(n) == IF n = 0 THEN 1 ELSE 2 * Pow2(n - 1)

Shl(a, n) == a * Pow2(n)

Shr(a, n) == a \div Pow2(n)

\* Conversion to unsigned char.
UChar(v) == v % 256

(***************************************************************************)
(* unsigned long values.                                                   *)
(***************************************************************************)
\* The unsigned long holding the natural n (n below 2^31).
ULFromNat(n) ==
    [i \in 1..ULONG_LIMBS |->
        IF i = 1 THEN n % LIMB ELSE IF i = 2 THEN n \div LIMB ELSE 0]

\* The borrow out of limb i of a - b.
RECURSIVE ULBorrow(_, _, _)
ULBorrow(a, b, i) ==
    IF i = 0 THEN 0
    ELSE IF a[i] - b[i] - ULBorrow(a, b, i - 1) < 0 THEN 1 ELSE 0

\* a - b in unsigned long arithmetic: modulo 2^(16 * ULONG_LIMBS).
ULSub(a, b) ==
    [i \in 1..ULONG_LIMBS |-> (a[i] - b[i] - ULBorrow(a, b, i - 1) + LIMB) % LIMB]

\* a < k for an unsigned long a and a constant k below 2^16.
ULLess(a, k) == (\A i \in 2..ULONG_LIMBS : a[i] = 0) /\ a[1] < k

\* a & mask for a mask below 2^16: the result fits one limb.
ULMask(a, mask) == BitAnd(a[1], mask)

(***************************************************************************)
(* The decode step and the encode step of one unit.                        *)
(***************************************************************************)
\* c = ((b3 & 127) | ((b2 & 127)<<7) | ((b1 & 127)<<14)) - 0x0F0000UL
Payload(b1, b2, b3) ==
    BitOr(BitOr(BitAnd(b3, 127), Shl(BitAnd(b2, 127), 7)), Shl(BitAnd(b1, 127), 14))

\* The decode step with the offset left in.
DecodeUnit_NoOffset(b1, b2, b3) == ULFromNat(Payload(b1, b2, b3))

\* The decode step with the high bit of b3 left in.
DecodeUnit_NoMask(b1, b2, b3) ==
    ULSub(ULFromNat(BitOr(BitOr(b3, Shl(BitAnd(b2, 127), 7)), Shl(BitAnd(b1, 127), 14))),
          ULFromNat(UTFT_OFFSET))

DecodeUnit(b1, b2, b3) ==
    ULSub(ULFromNat(Payload(b1, b2, b3)), ULFromNat(UTFT_OFFSET))

\* The encode step with the conventional boundaries 0x80, 0x800, 0x10000.
EmitUTF8_Conventional(c) ==
    IF ULLess(c, 128) THEN
        << UChar(c[1]) >>
    ELSE IF ULLess(c, 2048) THEN
        << UChar(BitOr(192, Shr(ULMask(c, 1984), 6))),
           UChar(BitOr(Shl(2, 6), ULMask(c, 63))) >>
    ELSE IF c[2] = 0 /\ c[3] = 0 /\ c[4] = 0 THEN
        << UChar(BitOr(224, Shr(ULMask(c, 61440), 12))),
           UChar(BitOr(Shl(2, 6), Shr(ULMask(c, 4032), 6))),
           UChar(BitOr(Shl(2, 6), ULMask(c, 63))) >>
    ELSE
        << UChar(BitOr(240, Shr(ULMask(c, 61440), 18))),
           UChar(BitOr(Shl(2, 6), Shr(ULMask(c, 16128), 12))),
           UChar(BitOr(Shl(2, 6), Shr(ULMask(c, 4032), 6))),
           UChar(BitOr(Shl(2, 6), ULMask(c, 63))) >>

\* The bytes the sentinel branch stores for the code point c.
EmitUTF8(c) ==
    IF ULLess(c, 127) THEN
        << UChar(c[1]) >>
    ELSE IF ULLess(c, 2047) THEN
        << UChar(BitOr(192, Shr(ULMask(c, 1984), 6))),
           UChar(BitOr(Shl(2, 6), ULMask(c, 63))) >>
    ELSE IF ULLess(c, 65535) THEN
        << UChar(BitOr(224, Shr(ULMask(c, 61440), 12))),
           UChar(BitOr(Shl(2, 6), Shr(ULMask(c, 4032), 6))),
           UChar(BitOr(Shl(2, 6), ULMask(c, 63))) >>
    ELSE
        << UChar(BitOr(240, Shr(ULMask(c, 61440), 18))),
           UChar(BitOr(Shl(2, 6), Shr(ULMask(c, 16128), 12))),
           UChar(BitOr(Shl(2, 6), Shr(ULMask(c, 4032), 6))),
           UChar(BitOr(Shl(2, 6), ULMask(c, 63))) >>

\* The bytes the high-bit branch stores for the byte b (c = b).
EmitHighBit(b) ==
    << UChar(BitOr(192, Shr(BitAnd(b, 1984), 6))),
       UChar(BitOr(Shl(2, 6), BitAnd(b, 63))) >>

(***************************************************************************)
(* The varlena macros of the host.                                         *)
(***************************************************************************)
\* VARSIZE(in): the total size of the datum, header included.
VARSIZE(data) == VARHDRSZ + Len(data)

\* SET_VARSIZE(out, len) stores len as the total size of the datum.
SET_VARSIZE(len, bytes) == [varsize |-> len, vl_dat |-> bytes]

\* The data of a returned datum as its reader sees it: varsize - VARHDRSZ bytes.
DataLen(t) == t.varsize - VARHDRSZ

Data(t) == IF DataLen(t) <= 0 THEN << >> ELSE SubSeq(t.vl_dat, 1, DataLen(t))

(***************************************************************************)
(* Arguments.                                                              *)
(***************************************************************************)
SampleUnits ==
    { << 65 >>, << 127 >>,
      << 155, 188, 129, 231 >>,     \* U+00E7
      << 155, 188, 193, 172 >>,     \* U+20AC
      << 155, 195, 162, 158 >>,     \* U+1D11E
      << 195, 167 >>,               \* a high-bit byte and the byte after it
      << 155, 188 >>,               \* a sentinel cut short
      << 231 >> }                   \* a high-bit byte cut short

RECURSIVE Concats(_)
Concats(n) ==
    IF n = 0 THEN { << >> }
    ELSE LET shorter == Concats(n - 1)
         IN shorter \cup { s \o u : s \in shorter, u \in SampleUnits }

\* n copies of the unit u, one after the other.
Rep(u, n) == [i \in 1..(n * Len(u)) |-> u[((i - 1) % Len(u)) + 1]]

ShortInputs == Concats(MaxUnits)

\* Long arguments, whose output passes the 512 bytes of the initial buffer
\* with index8 a multiple of 4, one more than a multiple of 4, and a multiple of 3.
LongInputs == { Rep(<< 155, 195, 162, 158 >>, LongUnits),
                << 65 >> \o Rep(<< 155, 195, 162, 158 >>, LongUnits - 1),
                Rep(<< 155, 188, 193, 172 >>, LongUnits + 42) }

\* The values the memory after the argument is sampled from.
GarbageBytes == { 0, 155, 195 }

NotRead == -1

VARIABLES
    calls,      \* the arguments of the calls the backend makes, in order
    results,    \* the values returned so far
    growth,     \* the value of UTFT_BUFSIZE in the build
    heap,       \* the byte values the memory after the argument may hold
    mem,        \* in->vl_dat as read so far: the data, then what lies after it
    maxT, indexT, index8, bufsize, buffer, c, out,
    pc,         \* "idle" between calls, "loop" at the head of the while loop
    oobWrite    \* a store has landed at or beyond buffer[bufsize]

vars == << calls, results, growth, heap, mem, maxT, indexT, index8, bufsize,
           buffer, c, out, pc, oobWrite >>

NULL == [varsize |-> 0, vl_dat |-> << >>]

\* The argument of the call in progress (or of the last call).
CurrentArg == calls[IF pc = "loop" THEN Len(results) + 1 ELSE Len(results)]

N == Len(CurrentArg)

(***************************************************************************)
(* Reading in->vl_dat[lo .. lo+n-1].  Inside the datum the bytes are the   *)
(* argument's; beyond it they are whatever the memory holds, chosen when   *)
(* first read.  A position skipped without being read is left NotRead.     *)
(***************************************************************************)
RECURSIVE Extend(_, _, _)
Extend(m, lo, hi) ==
    IF Len(m) >= hi THEN { m }
    ELSE IF Len(m) < lo THEN Extend(Append(m, NotRead), lo, hi)
    ELSE UNION { Extend(Append(m, g), lo, hi) : g \in heap }

Fetch(lo, n) == Extend(mem, lo, lo + n)

\* The capacity check without its margin of 4 bytes.
NeedGrow_AtCapacity(i8, size) == i8 > size

\* A buffer that never grows.
NeedGrow_Never(i8, size) == FALSE

\* if (index8 > (bufsize-4))
NeedGrow(i8, size) == i8 > size - 4

\* The ways the bytes ws land in buffer[index8 ..]: as written while they fit
\* the allocation, anything for a byte stored beyond it.
Landed(ws) ==
    LET room == IF bufsize - index8 < 0 THEN 0 ELSE bufsize - index8
    IN IF Len(ws) <= room THEN { ws }
       ELSE { s \in [1..Len(ws) -> 0..255] :
                \A i \in 1..Len(ws) :
                    IF i <= room THEN s[i] = ws[i] ELSE s[i] \in heap \cup { ws[i] } }

\* buffer[index8++] = ws[1]; ...; then the capacity check that ends the iteration.
Store(ws) ==
    /\ \E s \in Landed(ws) : buffer' = buffer \o s
    /\ index8' = index8 + Len(ws)
    /\ oobWrite' = (oobWrite \/ index8 + Len(ws) > bufsize)
    /\ bufsize' = IF NeedGrow(index8 + Len(ws), bufsize) THEN bufsize + growth ELSE bufsize

(***************************************************************************)
(* Actions.                                                                *)
(***************************************************************************)
\* Entry: the declarations of utft_to_utf8.
Call ==
    /\ pc = "idle"
    /\ Len(results) < Len(calls)
    /\ LET in == calls[Len(results) + 1]
       IN /\ mem' = in
          /\ maxT' = VARSIZE(in)
    /\ out' = NULL
    /\ bufsize' = growth
    /\ indexT' = 0
    /\ index8' = 0
    /\ buffer' = << >>
    /\ pc' = "loop"
    /\ UNCHANGED << calls, results, growth, heap, c, oobWrite >>

\* An iteration with b == 0x9B.
Sentinel ==
    /\ pc = "loop"
    /\ indexT < maxT
    /\ \E m \in Fetch(indexT, 4) :
        /\ m[indexT + 1] = SENTINEL
        /\ mem' = m
        /\ c' = DecodeUnit(m[indexT + 2], m[indexT + 3], m[indexT + 4])
    /\ indexT' = indexT + 4
    /\ Store(EmitUTF8(c'))
    /\ UNCHANGED << calls, results, growth, heap, maxT, out, pc >>

\* An iteration with another byte whose high bit is set.
HighBit ==
    /\ pc = "loop"
    /\ indexT < maxT
    /\ \E m \in Fetch(indexT, 1) :
        /\ m[indexT + 1] # SENTINEL
        /\ BitAnd(m[indexT + 1], Shl(1, 7)) # 0
        /\ mem' = m
        /\ c' = ULFromNat(m[indexT + 1])
        /\ Store(EmitHighBit(m[indexT + 1]))
    /\ indexT' = indexT + 2
    /\ UNCHANGED << calls, results, growth, heap, maxT, out, pc >>

\* An iteration with a byte below 0x80.
Ascii ==
    /\ pc = "loop"
    /\ indexT < maxT
    /\ \E m \in Fetch(indexT, 1) :
        /\ m[indexT + 1] # SENTINEL
        /\ BitAnd(m[indexT + 1], Shl(1, 7)) = 0
        /\ mem' = m
        /\ Store(<< m[indexT + 1] >>)
    /\ indexT' = indexT + 1
    /\ UNCHANGED << calls, results, growth, heap, maxT, out, pc, c >>

\* The loop has ended: build the result and return it.
Return ==
    /\ pc = "loop"
    /\ ~(indexT < maxT)
    /\ out' = SET_VARSIZE(index8, SubSeq(buffer, 1, index8))
    /\ results' = Append(results, out')
    /\ pc' = "idle"
    /\ UNCHANGED << calls, growth, heap, mem, maxT, indexT, index8, bufsize,
                    buffer, c, oobWrite >>

Next == Call \/ Sentinel \/ HighBit \/ Ascii \/ Return

Locals ==
    /\ results = << >>
    /\ mem = << >>
    /\ maxT = 0
    /\ indexT = 0
    /\ index8 = 0
    /\ bufsize = 0
    /\ buffer = << >>
    /\ c = ULFromNat(0)
    /\ out = NULL
    /\ pc = "idle"
    /\ oobWrite = FALSE

\* One call, on a short or a long argument, in the build as distributed.
Init ==
    /\ calls \in { << in >> : in \in ShortInputs \cup LongInputs }
    /\ growth = UTFT_BUFSIZE
    /\ heap = GarbageBytes
    /\ Locals

Spec == Init /\ [][Next]_vars


(***************************************************************************)
(* Other builds and other arguments.                                       *)
(***************************************************************************)
\* The values that memory holds in the runs that enumerate many arguments.
FewGarbageBytes == { 0, 195 }

\* Builds with UTFT_BUFSIZE replaced by another value G, 4 <= G <= 4096.
GrowthSet == { 4, 5, 7, 8, 512, 4096 }

InitG ==
    /\ calls \in { << in >> : in \in ShortInputs }
    /\ growth \in GrowthSet
    /\ heap = FewGarbageBytes
    /\ Locals

SpecG == InitG /\ [][Next]_vars

\* One sentinel unit 0x9B b1 b2 b3, the payload bytes drawn from samples
\* around every boundary of the decode and encode steps.
SevenBits == { 0, 1, 15, 16, 30, 34, 44, 59, 60, 61, 63, 64, 65, 67, 103, 126, 127 }

UnitBytes == { 128 + v : v \in SevenBits } \cup { 0, 60, 127 }

InitUnit ==
    /\ calls \in { << << SENTINEL, b1, b2, b3 >> >> : b1 \in UnitBytes, b2 \in UnitBytes, b3 \in UnitBytes }
    /\ growth = UTFT_BUFSIZE
    /\ heap = FewGarbageBytes
    /\ Locals

SpecUnit == InitUnit /\ [][Next]_vars

\* The UTF-T encoding of a code point, as the header comment describes it: one
\* byte below U+0080, otherwise 0x9B and the 21 bits of cp + 0x0F0000, seven
\* to a byte, each with its high bit set.
EncodeUTFT(cp) ==
    IF cp < 128 THEN << cp >>
    ELSE LET p == cp + UTFT_OFFSET
         IN << SENTINEL, 128 + ((p \div 16384) % 128), 128 + ((p \div 128) % 128),
               128 + (p % 128) >>

CpStride == 521

IsSurrogate(cp) == 55296 <= cp /\ cp <= 57343

SampleCodePoints ==
    { cp \in { 0, 65, 126, 127, 128, 231, 2046, 2047, 2048, 8364, 55295, 57344,
               65534, 65535, 65536, 119070, 1114111 }
             \cup { k * CpStride : k \in 0..(1114111 \div CpStride) } :
        ~IsSurrogate(cp) }

InitRoundTrip ==
    /\ calls \in { << EncodeUTFT(cp) >> : cp \in SampleCodePoints }
    /\ growth = UTFT_BUFSIZE
    /\ heap = FewGarbageBytes
    /\ Locals

SpecRoundTrip == InitRoundTrip /\ [][Next]_vars

\* in is made of complete units only.
RECURSIVE Complete(_)
Complete(in) ==
    IF in = << >> THEN TRUE
    ELSE IF in[1] = SENTINEL THEN Len(in) >= 4 /\ Complete(SubSeq(in, 5, Len(in)))
    ELSE IF in[1] >= 128 THEN Len(in) >= 2 /\ Complete(SubSeq(in, 3, Len(in)))
    ELSE Complete(SubSeq(in, 2, Len(in)))

\* Three calls: on input1, on input2 and on input1 ++ input2.
ConcatInputs == { in \in Concats(1) : Complete(in) }

InitConcat ==
    /\ calls \in { << a, b, a \o b >> : a \in ConcatInputs, b \in ConcatInputs }
    /\ growth = UTFT_BUFSIZE
    /\ heap = FewGarbageBytes
    /\ Locals

SpecConcat == InitConcat /\ [][Next]_vars


(***************************************************************************)
(* A run of the loop over the bytes recorded in m, from the state st up to *)
(* the cursor stop, in the build as distributed (UTFT_BUFSIZE = 512).      *)
(***************************************************************************)
RECURSIVE Replay(_, _, _)
Replay(m, stop, st) ==
    IF ~(st.iT < stop) THEN st
    ELSE LET b == m[st.iT + 1]
             ws == IF b = SENTINEL
                     THEN EmitUTF8(DecodeUnit(m[st.iT + 2], m[st.iT + 3], m[st.iT + 4]))
                   ELSE IF BitAnd(b, Shl(1, 7)) # 0 THEN EmitHighBit(b)
                   ELSE << b >>
             i8 == st.i8 + Len(ws)
         IN Replay(m, stop,
                [iT   |-> st.iT + (IF b = SENTINEL THEN 4
                                   ELSE IF BitAnd(b, Shl(1, 7)) # 0 THEN 2 ELSE 1),
                 i8   |-> i8,
                 buf  |-> st.buf \o ws,
                 size |-> IF NeedGrow(i8, st.size) THEN st.size + UTFT_BUFSIZE ELSE st.size,
                 oob  |-> (st.oob \/ i8 > st.size)])

Entry512 == [iT |-> 0, i8 |-> 0, buf |-> << >>, size |-> UTFT_BUFSIZE, oob |-> FALSE]

(***************************************************************************)
(* Vocabulary of the properties.                                           *)
(***************************************************************************)
\* A step that is one iteration of the sentinel branch.
SentinelStep == pc = "loop" /\ pc' = "loop" /\ indexT' = indexT + 4

\* The bytes an iteration appends to the buffer.
Emitted == SubSeq(buffer', index8 + 1, index8')

\* The 21-bit payload of the unit at the cursor, and the value it stands for.
PayloadAtCursor ==
    (mem'[indexT + 2] % 128) * 16384 + (mem'[indexT + 3] % 128) * 128
        + (mem'[indexT + 4] % 128)

ValueAtCursor == PayloadAtCursor - UTFT_OFFSET

\* lo <= a <= hi for an unsigned long a and naturals lo, hi below 2^31.
ULWithin(a, lo, hi) ==
    /\ a[3] = 0 /\ a[4] = 0 /\ a[2] < 32768
    /\ lo <= a[1] + LIMB * a[2]
    /\ a[1] + LIMB * a[2] <= hi

\* 2^64 - d as an unsigned long, for 1 <= d <= 2^31.
ULMinus(d) ==
    << (LIMB - (d % LIMB)) % LIMB, LIMB - 1 - ((d - 1) \div LIMB), LIMB - 1, LIMB - 1 >>

UTF8Two(cp) == << 192 + ((cp \div 64) % 32), 128 + (cp % 64) >>

UTF8Three(cp) ==
    << 224 + ((cp \div 4096) % 16), 128 + ((cp \div 64) % 64), 128 + (cp % 64) >>

UTF8Four(cp) ==
    << 240 + ((cp \div 262144) % 8), 128 + ((cp \div 4096) % 64),
       128 + ((cp \div 64) % 64), 128 + (cp % 64) >>

Returned == pc = "idle" /\ results # << >>

(***************************************************************************)
(* C1.  A sentinel unit whose code point c satisfies 0xFFFF <= c <=        *)
(* 0x10FFFF is stored as the four bytes 0xF0 | bits 20..18, 0x80 | bits    *)
(* 17..12, 0x80 | bits 11..6, 0x80 | bits 5..0 of c; 0x9B 0xC3 0xA2 0x9E   *)
(* gives 0xF0 0x9D 0x84 0x9E.  The code masks c with 0xF000 and 0x3F00     *)
(* before shifting by 18 and 12, so the property fails.                    *)
(***************************************************************************)
C1_FourByteLayout ==
    [][ (SentinelStep /\ 65535 <= ValueAtCursor /\ ValueAtCursor <= 1114111)
            => Emitted = UTF8Four(ValueAtCursor) ]_vars

C3_AsciiIdentity ==
    (Returned /\ Len(calls[1]) = 1 /\ calls[1][1] < 128)
        => DataLen(results[1]) = 1 /\ Data(results[1]) = calls[1]

(***************************************************************************)
(* C4.  The returned value has index8 data bytes, buffer[0..index8-1], and *)
(* an empty argument gives an empty result.  SET_VARSIZE(out, index8)      *)
(* makes index8 the total size, so the data is 4 bytes shorter.            *)
(***************************************************************************)
C4_ResultIsBuffer ==
    Returned
        => /\ DataLen(out) = index8
           /\ Data(out) = SubSeq(buffer, 1, index8)
           /\ (N = 0 => DataLen(out) = 0)

(***************************************************************************)
(* C5.  On an argument made of complete units the loop exits with the      *)
(* cursor equal to N, the number of data bytes, and has read no position   *)
(* at or beyond N.  maxT is VARSIZE(in) = N + 4, so the property fails.    *)
(***************************************************************************)
C5_ExitsAtN ==
    (Returned /\ Complete(CurrentArg))
        => indexT = N /\ Len(mem) <= N

(***************************************************************************)
(* C6.  For arguments input1 and input2 made of complete units, the result *)
(* on input1 ++ input2 is the result on input1 followed by the result on   *)
(* input2.  The results depend on the memory after each argument (C4, C5), *)
(* so the property fails.                                                  *)
(***************************************************************************)
C6_Concatenation ==
    (Len(results) = 3 /\ Complete(calls[1]) /\ Complete(calls[2])
        /\ calls[3] = calls[1] \o calls[2])
        => Data(results[3]) = Data(results[1]) \o Data(results[2])

(***************************************************************************)
(* C7.  With UTFT_BUFSIZE replaced by any G in 4..4096 the bytes written   *)
(* and the value returned are those of the build with G = 512 reading the  *)
(* same memory, and no store lands at or beyond the capacity.              *)
(***************************************************************************)
C7_GrowthIndependent ==
    /\ ~oobWrite
    /\ LET ref == Replay(mem, indexT, Entry512)
       IN /\ ~ref.oob
          /\ index8 = ref.i8
          /\ buffer = ref.buf
          /\ Returned => out = SET_VARSIZE(ref.i8, SubSeq(ref.buf, 1, ref.i8))

\* A build with a small G has grown its buffer and returned.
C7_Witness ==
    /\ Returned
    /\ growth = 4
    /\ bufsize > 2 * growth
    /\ index8 > 2 * growth

(***************************************************************************)
(* C8.  For a code point cp in [0, 0x10FFFF] that is no surrogate, the     *)
(* iteration on the UTF-T encoding of cp advances the cursor by the length *)
(* of the encoding and computes c = cp (stores the byte cp when cp < 0x80).*)
(***************************************************************************)
C8_RoundTrip ==
    [][ (pc = "loop" /\ indexT = 0 /\ indexT' # indexT)
            => \A cp \in SampleCodePoints :
                 calls[1] = EncodeUTFT(cp)
                    => IF cp < 128
                         THEN indexT' = 1 /\ Emitted = << cp >>
                         ELSE indexT' = 4 /\ c' = ULFromNat(cp) ]_vars

\* U+10FFFF has been decoded.
C8_Witness ==
    /\ pc = "loop" /\ indexT = 4
    /\ calls[1] = EncodeUTFT(1114111)
    /\ c = ULFromNat(1114111)

(***************************************************************************)
(* C9.  index8 never exceeds bufsize; at the head of every iteration       *)
(* index8 <= bufsize - 4, so no store of a unit lands at or beyond the     *)
(* capacity, one growth by UTFT_BUFSIZE being enough to restore the margin.*)
(***************************************************************************)
C9_WithinCapacity ==
    /\ index8 <= bufsize
    /\ ~oobWrite
    /\ pc = "loop" => index8 <= bufsize - 4

\* The buffer of the build as distributed has grown.
C9_Witness ==
    /\ pc = "loop"
    /\ growth = UTFT_BUFSIZE
    /\ bufsize = 2 * UTFT_BUFSIZE
    /\ index8 > UTFT_BUFSIZE - 4

(***************************************************************************)
(* C10.  As claimed: the code point computed for a sentinel unit lies in   *)
(* [0, 0x10FFFF] whatever the payload bytes are.  It fails for a payload   *)
(* below 0x0F0000, where the unsigned subtraction wraps around.            *)
(***************************************************************************)
C10_NeverWraps == ULWithin(c, 0, 1114111)

(***************************************************************************)
(* C10, amended.  For a payload p >= 0x0F0000 the code point is            *)
(* p - 0x0F0000, in [0, 0x10FFFF]; for p < 0x0F0000 the subtraction wraps  *)
(* around to 2^64 - (0x0F0000 - p), above 0x10FFFF, and the unit is stored *)
(* by the 4-byte branch.                                                   *)
(***************************************************************************)
C10_WrapsBelowOffset ==
    [][ SentinelStep
            => IF PayloadAtCursor >= UTFT_OFFSET
                 THEN c' = ULFromNat(ValueAtCursor) /\ ULWithin(c', 0, 1114111)
                 ELSE /\ c' = ULMinus(UTFT_OFFSET - PayloadAtCursor)
                      /\ ~ULWithin(c', 0, 1114111)
                      /\ Len(Emitted) = 4 ]_vars

\* A payload below 0x0F0000 has been decoded.
C10_Witness ==
    /\ pc = "loop" /\ indexT = 4
    /\ mem[1] = SENTINEL
    /\ mem[2] % 128 < 60
    /\ c[4] = LIMB - 1

=============================================================================
